---- MODULE Spec2Model ----
(***************************************************************************)
(* Autopilot scheduling engine of lifestyle-design-backend-refresh         *)
(* (src/src/server.js, src/src/models/*.js): the periodic tick, the refill *)
(* scheduler, the due-posting engine, the manual post operation, the TTL   *)
(* lock collection and the duplicate classifier.                           *)
(*                                                                         *)
(* One step of a worker is one store operation (one `await`) together with *)
(* the synchronous code that follows it up to the next store operation.    *)
(* Writes to ActivityLog and the in-memory event buffer are telemetry and  *)
(* carry no state of the model.  Store operations complete, except under   *)
(* SpecFaults, where they may raise.                                       *)
(***************************************************************************)
EXTENDS Integers, Sequences, FiniteSets, TLC

VARIABLES
  now,        \* wall clock, seconds (Date.now() / 1000)
  locks,      \* collection postinglocks: sequence of [key, expiresAt]
  queue,      \* collection postqueue: id -> [status, scheduledAt, postedAt]
  memos,      \* collection postedmemo: sequence of PostedMemo documents
  settings,   \* the Settings document
  pc,         \* worker -> position in the handler it runs
  loc,        \* worker -> local variables of the handler it runs
  sched,      \* worker -> schedulerState.lockHeld of its instance
  commits,    \* history: id -> number of saves that set status 'posted'
  proc,       \* worker -> state of its Node.js process
  hourCycle   \* resolved hourCycle of Intl.DateTimeFormat('en-US', { hour12: false })

vars == <<now, locks, queue, memos, settings, pc, loc, sched, commits, proc, hourCycle>>

-----------------------------------------------------------------------------
(* Bounds of the model *)

\* the clock stops at MaxNow
MaxNow == 180
\* the clock advances in steps of TimeStep seconds
TimeStep == 60
\* the largest hourlyLimit configured
MaxHourlyLimit == 3

\* concurrent workers: timer callbacks of scheduler instances and HTTP handlers
Procs == {"w1", "w2"}

-----------------------------------------------------------------------------
(* Program constants *)

SchedulerTtl == 55
ClaimTtl == 120
StaggerBase == 30
StaggerStep == 60
TickThreshold == 3
RunThreshold == 5
RefillLimit == 100
DueLimit == 50
HourSec == 3600

\* setInterval(..., 60 * 1000)
TickPeriod == 60

\* the hours the clock of the timer counts
MaxHours == 2
ProgressHorizon == MaxHours * HourSec
NoHashDistance == 9999
VisualMaxBits == 8
CaptionPct == 92
CaptionDurPct == 85
DurMaxDelta == 1
DefaultWindowN == 30
DefaultHourlyLimit == 3
DefaultDailyLimit == 5
DefaultMinLikes == 0

NoDate == -1

Platforms == {"instagram", "youtube"}

-----------------------------------------------------------------------------
(* Content of the candidates.  A caption is a sequence of words, a visual   *)
(* hash a sequence of hex digits (<<>> when absent), an absent duration 0   *)
(* (the classifier reads durationSec || 0).                                 *)

\* a seeded Instagram item: `IG demo video ${i+1}`, (100000 + i).toString(16), 10 + i
SeedIG(n, likes) ==
  [platform |-> "instagram", caption |-> <<"IG", "demo", "video", ToString(n)>>,
   likes |-> likes, visualHash |-> <<1, 8, 6, 10, n - 1>>, durationSec |-> 9 + n]

\* an item queued by /api/upload/dropbox-folder with the caption of the request
DropboxUpload(platform, caption) ==
  [platform |-> platform, caption |-> caption,
   likes |-> 1000, visualHash |-> <<13, 11, 0, 1>>, durationSec |-> 20]

\* an item queued by /api/upload/direct-video with the caption of the request
DirectUpload(platform, caption) ==
  [platform |-> platform, caption |-> caption,
   likes |-> 0, visualHash |-> <<>>, durationSec |-> 0]

\* the distinct documents the program creates: seeded items and uploads
Documents ==
  << SeedIG(1, 1200),
     DropboxUpload("instagram", <<"Dropbox", "demo", "file">>),
     [platform |-> "youtube", caption |-> <<"YT", "demo", "1">>,
      likes |-> 50, visualHash |-> <<15, 15, 0, 1>>, durationSec |-> 30],
     SeedIG(2, 900),
     SeedIG(3, 750),
     SeedIG(4, 450),
     SeedIG(7, 1400),
     DirectUpload("instagram", <<"!">>),
     DirectUpload("instagram", <<"go", "go", "go">>),
     DropboxUpload("instagram", <<"go", "go", "go", "now">>),
     DirectUpload("instagram", <<"go", "go", "now">>),
     DirectUpload("youtube", <<"http://x">>),
     DropboxUpload("instagram", <<"go", "go", "go">>),
     DirectUpload("instagram", <<"http://x">>) >>

AllIds == DOMAIN Documents

\* ids from FirstBulk on: RefillLimit further uploads through
\* /api/upload/dropbox-folder with the default caption
FirstBulk == Len(Documents) + 1

BulkIds == FirstBulk..(Len(Documents) + RefillLimit)

Catalog == [id \in AllIds \cup BulkIds |-> IF id \in AllIds THEN Documents[id] ELSE Documents[2]]

\* ids of the documents in the postqueue collection
Ids == DOMAIN queue

\* String.prototype.toLowerCase on the words that occur
LowerCase(w) ==
  CASE w = "IG" -> "ig"
    [] w = "YT" -> "yt"
    [] w = "Dropbox" -> "dropbox"
    [] OTHER -> w

\* words that the regular expressions of normalizeCaption delete entirely
\* (a URL, an emoji, punctuation)
Deleted(w) == w \in {"", "http://x", "!"}

RECURSIVE normalizeCaption(_)
normalizeCaption(c) ==
  IF c = <<>> THEN <<>>
  ELSE IF Deleted(Head(c)) THEN normalizeCaption(Tail(c))
       ELSE <<LowerCase(Head(c))>> \o normalizeCaption(Tail(c))

\* captionNorm as stored with the document at creation
CaptionNormOf(id) == normalizeCaption(Catalog[id].caption)

-----------------------------------------------------------------------------
(* Fingerprint / similarity engine *)

RECURSIVE HexValue(_)
HexValue(h) ==
  IF h = <<>> THEN 0 ELSE (16 * HexValue(SubSeq(h, 1, Len(h) - 1))) + h[Len(h)]

RECURSIVE XorBits(_, _)
XorBits(a, b) ==
  IF a = 0 /\ b = 0 THEN 0
  ELSE (((a % 2) + (b % 2)) % 2) + (2 * XorBits(a \div 2, b \div 2))

RECURSIVE PopCount(_)
PopCount(x) == IF x = 0 THEN 0 ELSE (x % 2) + PopCount(x \div 2)

\* the distance without the guard on absent arguments
HammingOfNumbers(a, b) == PopCount(XorBits(HexValue(a), HexValue(b)))

hammingDistanceHex(a, b) ==
  IF a = <<>> \/ b = <<>> THEN NoHashDistance
  ELSE PopCount(XorBits(HexValue(a), HexValue(b)))

\* String.prototype.split(' ') of a normalized text: '' splits into ['']
Split(s) == IF s = <<>> THEN <<"">> ELSE s

Count(seq, t) == Cardinality({i \in DOMAIN seq : seq[i] = t})

\* the sum of f[k] over the keys k in S, added to acc
RECURSIVE SumOver(_, _, _)
SumOver(S, f, acc) ==
  IF S = {} THEN acc
  ELSE LET k == CHOOSE k \in S : TRUE IN SumOver(S \ {k}, f, acc + f[k])

\* dot, na, nb of cosineSimFromTokens; the similarity is dot / (sqrt(na) * sqrt(nb))
cosineSimFromTokens(a, b) ==
  LET ta == Split(a)
      tb == Split(b)
      all == {ta[i] : i \in DOMAIN ta} \cup {tb[i] : i \in DOMAIN tb}
      va(k) == Count(ta, k)
      vb(k) == Count(tb, k)
      dotf == [k \in all |-> va(k) * vb(k)]
      naf == [k \in all |-> va(k) * va(k)]
      nbf == [k \in all |-> vb(k) * vb(k)]
  IN [dot |-> SumOver(all, dotf, 0), na |-> SumOver(all, naf, 0),
      nb |-> SumOver(all, nbf, 0)]

\* sim >= pct / 100, with sim = 0 when na or nb is 0
SimAtLeast(sim, pct) ==
  IF sim.na = 0 \/ sim.nb = 0 THEN pct <= 0
  ELSE sim.dot * sim.dot * 10000 >= pct * pct * sim.na * sim.nb

Abs(x) == IF x < 0 THEN 0 - x ELSE x

-----------------------------------------------------------------------------
(* Duplicate classifier *)

\* positions of the PostedMemo documents of a platform
MemosOf(platform) == {i \in DOMAIN memos : memos[i].platform = platform}

\* sort({postedAt: -1}): the most recent first, the later insert first on a tie
MemoBefore(i, j) ==
  \/ memos[i].postedAt > memos[j].postedAt
  \/ memos[i].postedAt = memos[j].postedAt /\ i > j

RECURSIVE SortMemos(_)
SortMemos(S) ==
  IF S = {} THEN <<>>
  ELSE LET f == CHOOSE i \in S : \A j \in S \ {i} : MemoBefore(i, j)
       IN <<memos[f]>> \o SortMemos(S \ {f})

FirstN(seq, n) == SubSeq(seq, 1, IF Len(seq) < n THEN Len(seq) ELSE n)

getLastNPosted(platform, n) == FirstN(SortMemos(MemosOf(platform)), n)

\* the rules tested in the order caption, caption with duration, visual
ItemVerdictCaptionFirst(id, item) ==
  LET hamming == hammingDistanceHex(Catalog[id].visualHash, item.visualHash)
      capSim == cosineSimFromTokens(normalizeCaption(Catalog[id].caption), item.captionNorm)
      durDelta == Abs(Catalog[id].durationSec - item.durationSec)
  IN IF SimAtLeast(capSim, CaptionPct) THEN "duplicate_caption"
     ELSE IF SimAtLeast(capSim, CaptionDurPct) /\ durDelta <= DurMaxDelta
          THEN "duplicate_caption_duration"
     ELSE IF hamming <= VisualMaxBits THEN "duplicate_visual"
     ELSE "none"

\* the verdict of one window item, "none" when no rule matches
ItemVerdict(id, item) ==
  LET hamming == hammingDistanceHex(Catalog[id].visualHash, item.visualHash)
      capSim == cosineSimFromTokens(normalizeCaption(Catalog[id].caption), item.captionNorm)
      durDelta == Abs(Catalog[id].durationSec - item.durationSec)
  IN IF hamming <= VisualMaxBits THEN "duplicate_visual"
     ELSE IF SimAtLeast(capSim, CaptionPct) THEN "duplicate_caption"
     ELSE IF SimAtLeast(capSim, CaptionDurPct) /\ durDelta <= DurMaxDelta
          THEN "duplicate_caption_duration"
     ELSE "none"

RECURSIVE ScanWindow(_, _)
ScanWindow(id, recent) ==
  IF recent = <<>> THEN "none"
  ELSE LET v == ItemVerdict(id, Head(recent))
       IN IF v # "none" THEN v ELSE ScanWindow(id, Tail(recent))

\* the reason, "none" for { duplicate: false }
isDuplicateCandidate(id) ==
  LET windowN == IF settings.recentPostsWindowCount = 0 THEN DefaultWindowN
                 ELSE settings.recentPostsWindowCount
  IN ScanWindow(id, getLastNPosted(Catalog[id].platform, windowN))

-----------------------------------------------------------------------------
(* Burst window and the effective hourly cap *)

\* hour12: false resolves to hourCycle h23 or, where the locale's default is
\* h12 and the runtime follows the older ECMA-402 rule, to h24; it is fixed for
\* a runtime
HourCycles == {"h23", "h24"}

\* the hour of the day and the minute of the clock, taking second 0 as 00:00 Central
HourOfDay == (now \div HourSec) % 24
MinuteOfHour == (now \div 60) % 60

\* Intl.DateTimeFormat HH:mm of the clock: h24 renders the hour after midnight as 24
ctNowHHmm == <<IF HourOfDay = 0 /\ hourCycle = "h24" THEN 24 ELSE HourOfDay, MinuteOfHour>>

\* comparison of two zero-padded HH:mm strings
HHmmLess(a, b) == a[1] < b[1] \/ (a[1] = b[1] /\ a[2] < b[2])
HHmmLeq(a, b) == a = b \/ HHmmLess(a, b)

\* <<>> is a missing bound
isCtNowWithinWindow(startHHmm, endHHmm) ==
  IF startHHmm = <<>> \/ endHHmm = <<>> THEN FALSE
  ELSE IF HHmmLeq(startHHmm, endHHmm)
       THEN HHmmLeq(startHHmm, ctNowHHmm) /\ HHmmLess(ctNowHHmm, endHHmm)
       ELSE HHmmLeq(startHHmm, ctNowHHmm) \/ HHmmLess(ctNowHHmm, endHHmm)

burstActive ==
  settings.burstModeEnabled
  /\ isCtNowWithinWindow(settings.burstModeConfig.startTime, settings.burstModeConfig.endTime)

\* burstActive ? (postsPerHour || s.hourlyLimit) : s.hourlyLimit
EffectiveHourlyLimit ==
  IF burstActive
  THEN IF settings.burstModeConfig.postsPerHour # 0
       THEN settings.burstModeConfig.postsPerHour ELSE settings.hourlyLimit
  ELSE settings.hourlyLimit

\* the Settings document created by getOrCreateSettings: the schema defaults
DefaultSettings ==
  [hourlyLimit |-> DefaultHourlyLimit,
   dailyLimit |-> DefaultDailyLimit,
   minimumIGLikesToRepost |-> DefaultMinLikes,
   recentPostsWindowCount |-> DefaultWindowN,
   burstModeEnabled |-> FALSE,
   burstModeConfig |-> [startTime |-> <<0, 0>>, endTime |-> <<0, 0>>, postsPerHour |-> 0]]

-----------------------------------------------------------------------------
(* The lock collection *)

SchedulerKey == [kind |-> "scheduler", id |-> 0]
PostKey(id) == [kind |-> "post", id |-> id]

LockRecords(key) == {i \in DOMAIN locks : locks[i].key = key}

\* the collection without the unique index on key
NoUniqueIndex(key) == FALSE

\* the unique index on key rejects an insert while a document with the key exists
UniqueKeyConflict(key) == LockRecords(key) # {}

\* a create that treats an expired document as absent and leaves it in place
tryAcquireLockOrExpired(key) == \A i \in LockRecords(key) : locks[i].expiresAt <= now

\* the result of tryAcquireLock: true when PostingLock.create succeeds
tryAcquireLock(key) == ~UniqueKeyConflict(key)

\* the collection after tryAcquireLock(key, ttlSec) by worker p
\* (by, the worker that created the document, is history, not a stored field)
LocksAfterAcquire(p, key, ttlSec) ==
  IF tryAcquireLock(key)
  THEN Append(locks, [key |-> key, expiresAt |-> now + ttlSec, by |-> p])
  ELSE locks

\* an index that expires every document at once
ExpiredAlways(r) == TRUE

\* an index that expires nothing
ExpiredNever(r) == FALSE

\* a document the TTL index (expires: 0) may delete
Expired(r) == r.expiresAt <= now

\* a pass that empties the collection
TTLMonitorDropsAll ==
  /\ \E i \in DOMAIN locks : locks[i].expiresAt <= now
  /\ locks' = <<>>
  /\ UNCHANGED <<now, queue, memos, settings, pc, loc, sched, commits, proc, hourCycle>>

\* one pass of the store's TTL monitor: it deletes the expired lock documents
TTLMonitor ==
  /\ \E i \in DOMAIN locks : Expired(locks[i])
  /\ locks' = SelectSeq(locks, LAMBDA r : ~Expired(r))
  /\ UNCHANGED <<now, queue, memos, settings, pc, loc, sched, commits, proc, hourCycle>>

\* the passage of time
Advance ==
  /\ now + TimeStep <= MaxNow
  /\ now' = now + TimeStep
  /\ UNCHANGED <<locks, queue, memos, settings, pc, loc, sched, commits, proc, hourCycle>>

-----------------------------------------------------------------------------
(* Queries on the postqueue collection *)

CountStatus(st) == Cardinality({id \in Ids : queue[id].status = st})

\* a count of every 'posted' candidate of the platform, whatever its postedAt
CountPostedEver(platform, hourAgo) ==
  Cardinality({id \in Ids : Catalog[id].platform = platform /\ queue[id].status = "posted"})

\* countDocuments({ platform, status: 'posted', postedAt: { $gte: hourAgo } })
CountPostedSince(platform, hourAgo) ==
  Cardinality({id \in Ids : /\ Catalog[id].platform = platform
                            /\ queue[id].status = "posted"
                            /\ queue[id].postedAt >= hourAgo})

\* sort({ 'engagement.likes': 1 })
ByLikesAsc(i, j) ==
  \/ Catalog[i].likes < Catalog[j].likes
  \/ Catalog[i].likes = Catalog[j].likes /\ i < j

\* sort({ 'engagement.likes': -1 }), insertion order on a tie
ByLikesDesc(i, j) ==
  \/ Catalog[i].likes > Catalog[j].likes
  \/ Catalog[i].likes = Catalog[j].likes /\ i < j

\* sort({ scheduledAt: 1 }), insertion order on a tie
ByScheduledAt(i, j) ==
  \/ queue[i].scheduledAt < queue[j].scheduledAt
  \/ queue[i].scheduledAt = queue[j].scheduledAt /\ i < j

\* no sort: insertion order
ByInsertion(i, j) == i < j

\* the order a find imposes: by its sort key, or none
Before(order, i, j) ==
  CASE order = "likes" -> ByLikesDesc(i, j)
    [] order = "scheduledAt" -> ByScheduledAt(i, j)
    [] OTHER -> ByInsertion(i, j)

\* the ids of S as the sequence a find with the given sort returns
SortIds(S, order) ==
  LET rank == [i \in S |-> Cardinality({j \in S : Before(order, j, i)})]
  IN [k \in 1..Cardinality(S) |-> CHOOSE i \in S : rank[i] = k - 1]

QueuedIds == {id \in Ids : queue[id].status = "queued"}

DueIds == {id \in Ids : queue[id].status = "scheduled" /\ queue[id].scheduledAt <= now}

-----------------------------------------------------------------------------
(* Workers *)

ZeroTotals == [pl \in Platforms |-> 0]

\* op: the handler; threshold, need, added, list, i: scheduleRefill and the loops;
\* hourAgo, totals, hourlyLimit, burst (burstActive): postDueWithCaps;
\* dup: the classifier's verdict;
\* at: item.postedAt; lockExp: expiresAt of the tick's tryAcquireLock;
\* key, ret: the argument and the result of a single tryAcquireLock call;
\* sample: the window of POST /api/debug/similarity-check with its distances;
\* history of the invocation, not variables of the code: q0, the ids queued when
\* scheduleRefill started; promoted, the ids it scheduled, in order; base, the
\* totals postDueWithCaps counted; done, the ids it saved as 'posted', in order
IdleLoc ==
  [op |-> "none", threshold |-> 0, need |-> 0, added |-> 0, list |-> <<>>, i |-> 0,
   hourAgo |-> NoDate, totals |-> ZeroTotals, hourlyLimit |-> 0, dup |-> "none",
   at |-> NoDate, lockExp |-> NoDate, key |-> [kind |-> "none", id |-> 0], ret |-> "none",
   q0 |-> {}, promoted |-> <<>>, base |-> ZeroTotals, done |-> <<>>, sample |-> <<>>,
   burst |-> FALSE]

\* the handler of worker p returns
Return(p) ==
  /\ pc' = [pc EXCEPT ![p] = "idle"]
  /\ loc' = [loc EXCEPT ![p] = IdleLoc]

Goto(p, label, l) ==
  /\ pc' = [pc EXCEPT ![p] = label]
  /\ loc' = [loc EXCEPT ![p] = l]

-----------------------------------------------------------------------------
(* scheduleRefill(threshold) *)

BelowMinimum(id) ==
  Catalog[id].platform = "instagram" /\ Catalog[id].likes < settings.minimumIGLikesToRepost

\* a loop without the engagement guard
NextAny(list, i) == i

\* the first position from i on whose candidate passes the engagement guard,
\* Len(list) + 1 when the loop ends
NextEligible(list, i) ==
  LET rest == {k \in i..Len(list) : ~BelowMinimum(list[k])}
  IN IF rest = {} THEN Len(list) + 1
     ELSE CHOOSE k \in rest : \A m \in rest : k <= m

\* a loop that goes on whatever was added
NeverEnough(added, need) == FALSE

\* if (added >= need) break
Enough(added, need) == added >= need

\* getOrCreateSettings and countDocuments({ status: 'scheduled' })
RefillCount(p, op, threshold) ==
  LET scheduledCount == CountStatus("scheduled")
      l == [IdleLoc EXCEPT !.op = op, !.threshold = threshold,
                           !.need = threshold - scheduledCount,
                           !.lockExp = loc[p].lockExp, !.q0 = QueuedIds]
  IN IF scheduledCount < threshold
     THEN Goto(p, "refill_find", l)
     ELSE Goto(p, "refill_return", l)

\* the first store operation of scheduleRefill(3) inside a tick
scheduleRefill_count(p) ==
  /\ pc[p] = "refill_count"
  /\ RefillCount(p, "tick", TickThreshold)
  /\ UNCHANGED <<now, locks, queue, memos, settings, sched, commits, proc, hourCycle>>

\* POST /api/autopilot/refill and POST /api/autopilot/run
HttpRefill(p) ==
  /\ pc[p] = "idle"
  /\ \E threshold \in {TickThreshold, RunThreshold} : RefillCount(p, "refill", threshold)
  /\ UNCHANGED <<now, locks, queue, memos, settings, sched, commits, proc, hourCycle>>

\* find({ status: 'queued' }).sort({ 'engagement.likes': -1 }).limit(100)
scheduleRefill_find(p) ==
  /\ pc[p] = "refill_find"
  /\ LET candidates == FirstN(SortIds(QueuedIds, "likes"), RefillLimit)
         j == NextEligible(candidates, 1)
     IN Goto(p, IF j > Len(candidates) THEN "refill_return" ELSE "refill_dup",
             [loc[p] EXCEPT !.list = candidates, !.i = j])
  /\ UNCHANGED <<now, locks, queue, memos, settings, sched, commits, proc, hourCycle>>

\* isDuplicateCandidate(cand, s)
scheduleRefill_dup(p) ==
  /\ pc[p] = "refill_dup"
  /\ Goto(p, "refill_save", [loc[p] EXCEPT !.dup = isDuplicateCandidate(loc[p].list[loc[p].i])])
  /\ UNCHANGED <<now, locks, queue, memos, settings, sched, commits, proc, hourCycle>>

\* cand.save() of the in-memory document: it writes the paths set on it
scheduleRefill_save(p) ==
  /\ pc[p] = "refill_save"
  /\ LET l == loc[p]
         id == l.list[l.i]
         j == NextEligible(l.list, l.i + 1)
     IN IF l.dup # "none"
        THEN /\ queue' = [queue EXCEPT ![id].status = "skipped"]
             /\ Goto(p, IF j > Len(l.list) THEN "refill_return" ELSE "refill_dup",
                     [l EXCEPT !.i = j, !.dup = "none"])
        ELSE /\ queue' = [queue EXCEPT ![id].status = "scheduled",
                                       ![id].scheduledAt = now + (l.added * StaggerStep + StaggerBase)]
             /\ Goto(p, IF Enough(l.added + 1, l.need) \/ j > Len(l.list)
                        THEN "refill_return" ELSE "refill_dup",
                     [l EXCEPT !.i = j, !.added = l.added + 1, !.dup = "none",
                               !.promoted = Append(@, id)])
  /\ UNCHANGED <<now, locks, memos, settings, sched, commits, proc, hourCycle>>

\* the countDocuments of the return value; the tick goes on to postDueWithCaps
scheduleRefill_return(p) ==
  /\ pc[p] = "refill_return"
  /\ IF loc[p].op = "tick"
     THEN Goto(p, "post_count_ig", [IdleLoc EXCEPT !.op = "tick", !.lockExp = loc[p].lockExp])
     ELSE Return(p)
  /\ UNCHANGED <<now, locks, queue, memos, settings, sched, commits, proc, hourCycle>>

-----------------------------------------------------------------------------
(* postDueWithCaps *)

\* a loop without the test of perPlatformTotals against hourlyLimit
NeverCapped(list, i, totals, hourlyLimit) == i

\* the first position from i on whose platform is under the hourly cap,
\* Len(list) + 1 when the loop ends
RECURSIVE NextUncapped(_, _, _, _)
NextUncapped(list, i, totals, hourlyLimit) ==
  IF i > Len(list) THEN i
  ELSE IF totals[Catalog[list[i]].platform] >= hourlyLimit
       THEN NextUncapped(list, i + 1, totals, hourlyLimit)
       ELSE i

\* the loop of a worker goes on at position j, or the handler returns
Continue(p, l, j) ==
  IF j > Len(l.list) THEN Return(p)
  ELSE Goto(p, IF l.op = "manual" THEN "now_dup" ELSE "post_claim",
            [l EXCEPT !.i = j, !.dup = "none", !.at = NoDate])

\* the position after i at which the loop of worker p goes on
NextItem(l) ==
  IF l.op = "manual" THEN l.i + 1
  ELSE NextUncapped(l.list, l.i + 1, l.totals, l.hourlyLimit)

\* getOrCreateSettings, burstActive, hourAgo and the Instagram count
postDueWithCaps_count_ig(p) ==
  /\ pc[p] = "post_count_ig"
  /\ LET hourAgo == now - HourSec
     IN Goto(p, "post_count_yt",
             [loc[p] EXCEPT !.hourAgo = hourAgo,
                            !.hourlyLimit = EffectiveHourlyLimit,
                            !.burst = burstActive,
                            !.totals = [@ EXCEPT !["instagram"] = CountPostedSince("instagram", hourAgo)]])
  /\ UNCHANGED <<now, locks, queue, memos, settings, sched, commits, proc, hourCycle>>

\* the YouTube count
postDueWithCaps_count_yt(p) ==
  /\ pc[p] = "post_count_yt"
  /\ LET totals == [loc[p].totals EXCEPT
                      !["youtube"] = CountPostedSince("youtube", loc[p].hourAgo)]
     IN Goto(p, "post_find",
             [loc[p] EXCEPT !.hourAgo = NoDate, !.totals = totals, !.base = totals])
  /\ UNCHANGED <<now, locks, queue, memos, settings, sched, commits, proc, hourCycle>>

\* find({ status: 'scheduled', scheduledAt: { $lte: now } }).sort({ scheduledAt: 1 }).limit(50)
postDueWithCaps_find(p) ==
  /\ pc[p] = "post_find"
  /\ LET due == FirstN(SortIds(DueIds, "scheduledAt"), DueLimit)
         l == [loc[p] EXCEPT !.list = due]
     IN Continue(p, l, NextUncapped(due, 1, l.totals, l.hourlyLimit))
  /\ UNCHANGED <<now, locks, queue, memos, settings, sched, commits, proc, hourCycle>>

\* a loop that marks the item 'skipped' when the claim fails
postDueWithCaps_claim_marks(p) ==
  /\ pc[p] = "post_claim"
  /\ LET l == loc[p]
         key == PostKey(l.list[l.i])
     IN /\ locks' = LocksAfterAcquire(p, key, ClaimTtl)
        /\ IF tryAcquireLock(key)
           THEN Goto(p, "post_dup", l) /\ queue' = queue
           ELSE /\ Continue(p, l, NextItem(l))
                /\ queue' = [queue EXCEPT ![l.list[l.i]].status = "skipped"]
  /\ UNCHANGED <<now, memos, settings, sched, commits, proc, hourCycle>>

\* tryAcquireLock(`post:${item._id}`, 120)
postDueWithCaps_claim(p) ==
  /\ pc[p] = "post_claim"
  /\ LET l == loc[p]
         key == PostKey(l.list[l.i])
     IN /\ locks' = LocksAfterAcquire(p, key, ClaimTtl)
        /\ IF tryAcquireLock(key)
           THEN Goto(p, "post_dup", l)
           ELSE Continue(p, l, NextItem(l))
  /\ UNCHANGED <<now, queue, memos, settings, sched, commits, proc, hourCycle>>

\* isDuplicateCandidate(item, s)
postDueWithCaps_dup(p) ==
  /\ pc[p] = "post_dup"
  /\ Goto(p, "post_save", [loc[p] EXCEPT !.dup = isDuplicateCandidate(loc[p].list[loc[p].i])])
  /\ UNCHANGED <<now, locks, queue, memos, settings, sched, commits, proc, hourCycle>>

\* item.save() of the in-memory document, as 'skipped' or as 'posted'
SaveItem(p, memoLabel) ==
  LET l == loc[p]
      id == l.list[l.i]
  IN IF l.dup # "none"
     THEN /\ queue' = [queue EXCEPT ![id].status = "skipped"]
          /\ commits' = commits
          /\ Continue(p, l, NextItem(l))
     ELSE /\ queue' = [queue EXCEPT ![id].status = "posted", ![id].postedAt = now]
          /\ commits' = [commits EXCEPT ![id] = @ + 1]
          /\ Goto(p, memoLabel, [l EXCEPT !.at = now, !.done = Append(@, id)])

\* PostedMemo.create from the in-memory document; src is history, not a stored field
CreateMemo(p) ==
  LET l == loc[p]
      id == l.list[l.i]
  IN memos' = Append(memos, [platform |-> Catalog[id].platform, postedAt |-> l.at,
                             visualHash |-> Catalog[id].visualHash,
                             captionNorm |-> CaptionNormOf(id),
                             durationSec |-> Catalog[id].durationSec, src |-> id])

postDueWithCaps_save(p) ==
  /\ pc[p] = "post_save"
  /\ SaveItem(p, "post_memo")
  /\ UNCHANGED <<now, locks, memos, settings, sched, proc, hourCycle>>

\* PostedMemo.create and perPlatformTotals[item.platform] += 1
postDueWithCaps_memo(p) ==
  /\ pc[p] = "post_memo"
  /\ CreateMemo(p)
  /\ LET l == [loc[p] EXCEPT !.totals[Catalog[loc[p].list[loc[p].i]].platform] = @ + 1]
     IN Continue(p, l, NextItem(l))
  /\ UNCHANGED <<now, locks, queue, settings, sched, commits, proc, hourCycle>>

-----------------------------------------------------------------------------
(* postDueNow: POST /api/post-now and POST /api/autopilot/manual-post *)

\* find({ status: 'scheduled', scheduledAt: { $lte: now } }).limit(50) and getOrCreateSettings
postDueNow_find(p) ==
  /\ pc[p] = "idle"
  /\ LET due == FirstN(SortIds(DueIds, "none"), DueLimit)
     IN Continue(p, [IdleLoc EXCEPT !.op = "manual", !.list = due], 1)
  /\ UNCHANGED <<now, locks, queue, memos, settings, sched, commits, proc, hourCycle>>

postDueNow_dup(p) ==
  /\ pc[p] = "now_dup"
  /\ Goto(p, "now_save", [loc[p] EXCEPT !.dup = isDuplicateCandidate(loc[p].list[loc[p].i])])
  /\ UNCHANGED <<now, locks, queue, memos, settings, sched, commits, proc, hourCycle>>

postDueNow_save(p) ==
  /\ pc[p] = "now_save"
  /\ SaveItem(p, "now_memo")
  /\ UNCHANGED <<now, locks, memos, settings, sched, proc, hourCycle>>

postDueNow_memo(p) ==
  /\ pc[p] = "now_memo"
  /\ CreateMemo(p)
  /\ Continue(p, loc[p], NextItem(loc[p]))
  /\ UNCHANGED <<now, locks, queue, settings, sched, commits, proc, hourCycle>>

-----------------------------------------------------------------------------
(* POST /api/debug/similarity-check *)

\* getOrCreateSettings; the candidate of the request has the platform,
\* visualHash, caption and durationSec of document id
similarity_check(p) ==
  /\ pc[p] = "idle"
  /\ \E id \in Ids :
       Goto(p, "check_recent", [IdleLoc EXCEPT !.op = "check", !.list = <<id>>, !.i = 1])
  /\ UNCHANGED <<now, locks, queue, memos, settings, sched, commits, proc, hourCycle>>

\* recent.map(r => ({ ..., distances: { visualHamming, captionSim, durationDelta } }))
Distances(id, r) ==
  [postedAt |-> r.postedAt, visualHash |-> r.visualHash, captionNorm |-> r.captionNorm,
   durationSec |-> r.durationSec,
   distances |->
     [visualHamming |-> hammingDistanceHex(Catalog[id].visualHash, r.visualHash),
      captionSim |-> cosineSimFromTokens(CaptionNormOf(id), r.captionNorm),
      durationDelta |-> Abs(Catalog[id].durationSec - r.durationSec)]]

\* for (const r of sample): the reason of the first item that matches a rule
RECURSIVE Decision(_)
Decision(sample) ==
  IF sample = <<>> THEN "none"
  ELSE LET d == Head(sample).distances
       IN IF d.visualHamming <= VisualMaxBits THEN "duplicate_visual"
          ELSE IF SimAtLeast(d.captionSim, CaptionPct) THEN "duplicate_caption"
          ELSE IF SimAtLeast(d.captionSim, CaptionDurPct) /\ d.durationDelta <= DurMaxDelta
               THEN "duplicate_caption_duration"
          ELSE Decision(Tail(sample))

\* getLastNPosted, the sample, the decision and the response
similarity_check_recent(p) ==
  /\ pc[p] = "check_recent"
  /\ LET id == loc[p].list[1]
         windowN == IF settings.recentPostsWindowCount = 0 THEN DefaultWindowN
                    ELSE settings.recentPostsWindowCount
         recent == getLastNPosted(Catalog[id].platform, windowN)
         sample == [k \in DOMAIN recent |-> Distances(id, recent[k])]
     IN Goto(p, "check_respond", [loc[p] EXCEPT !.sample = sample, !.dup = Decision(sample)])
  /\ UNCHANGED <<now, locks, queue, memos, settings, sched, commits, proc, hourCycle>>

\* the response is delivered
similarity_check_respond(p) ==
  /\ pc[p] = "check_respond"
  /\ Return(p)
  /\ UNCHANGED <<now, locks, queue, memos, settings, sched, commits, proc, hourCycle>>

-----------------------------------------------------------------------------
(* startScheduler: the timer callback *)

\* a callback that runs the tick body whatever tryAcquireLock returns
TickIgnoringLock(p) ==
  /\ pc[p] = "idle"
  /\ proc[p] # "exited"
  /\ locks' = LocksAfterAcquire(p, SchedulerKey, SchedulerTtl)
  /\ sched' = [sched EXCEPT ![p] = tryAcquireLock(SchedulerKey)]
  /\ Goto(p, "refill_count", [IdleLoc EXCEPT !.op = "tick", !.lockExp = now + SchedulerTtl])
  /\ UNCHANGED <<now, queue, memos, settings, commits, proc, hourCycle>>

\* tryAcquireLock('scheduler', 55); without the lock the callback returns
Tick(p) ==
  /\ pc[p] = "idle"
  /\ proc[p] # "exited"
  /\ locks' = LocksAfterAcquire(p, SchedulerKey, SchedulerTtl)
  /\ sched' = [sched EXCEPT ![p] = tryAcquireLock(SchedulerKey)]
  /\ IF tryAcquireLock(SchedulerKey)
     THEN Goto(p, "refill_count", [IdleLoc EXCEPT !.op = "tick", !.lockExp = now + SchedulerTtl])
     ELSE UNCHANGED <<pc, loc>>
  /\ UNCHANGED <<now, queue, memos, settings, commits, proc, hourCycle>>

-----------------------------------------------------------------------------
(* A worker's callback is abandoned: its instance crashes and restarts, or its *)
(* pending store operation never completes.  What it wrote stays written.      *)

Crash(p) ==
  /\ loc[p].op = "tick"
  /\ Return(p)
  /\ UNCHANGED <<now, locks, queue, memos, settings, sched, commits, proc, hourCycle>>

-----------------------------------------------------------------------------
(* Store failures inside a timer callback.  A store operation that raises has *)
(* written nothing; what was written before it stays written.  A raise of an  *)
(* ActivityLog.create inside scheduleRefill or postDueWithCaps leads to the    *)
(* same catch block from the same collections as a raise of the operation     *)
(* that follows it.                                                           *)

\* positions of the tick body whose pending store operation raises into the
\* catch block of the callback
RaisingLabels ==
  {"refill_count", "refill_find", "refill_dup", "refill_save", "refill_return",
   "post_count_ig", "post_count_yt", "post_find", "post_dup", "post_save", "post_memo"}

\* a failure whose handling puts back as 'queued' what the tick had committed
StoreFailureRollsBack(p) ==
  /\ loc[p].op = "tick"
  /\ pc[p] \in RaisingLabels
  /\ Goto(p, "tick_error", loc[p])
  /\ queue' = [id \in Ids |->
                 IF \/ \E k \in DOMAIN loc[p].promoted : loc[p].promoted[k] = id
                    \/ \E k \in DOMAIN loc[p].done : loc[p].done[k] = id
                 THEN [status |-> "queued", scheduledAt |-> NoDate, postedAt |-> NoDate]
                 ELSE queue[id]]
  /\ UNCHANGED <<now, locks, memos, settings, sched, commits, proc, hourCycle>>

\* the pending store operation of the tick body raises: control passes to
\* catch (e), whose first statement awaits ActivityLog.create
StoreFailure(p) ==
  /\ loc[p].op = "tick"
  /\ pc[p] \in RaisingLabels
  /\ Goto(p, "tick_error", loc[p])
  /\ UNCHANGED <<now, locks, queue, memos, settings, sched, commits, proc, hourCycle>>

\* PostingLock.create of the claim raises: tryAcquireLock catches and returns false
postDueWithCaps_claim_fails(p) ==
  /\ pc[p] = "post_claim"
  /\ Continue(p, loc[p], NextItem(loc[p]))
  /\ UNCHANGED <<now, locks, queue, memos, settings, sched, commits, proc, hourCycle>>

\* PostingLock.create of the timer callback raises: tryAcquireLock returns false
Tick_fails(p) ==
  /\ pc[p] = "idle"
  /\ proc[p] # "exited"
  /\ sched' = [sched EXCEPT ![p] = FALSE]
  /\ UNCHANGED <<now, locks, queue, memos, settings, pc, loc, commits, proc, hourCycle>>

\* the ActivityLog.create of the catch block completes; finally; the callback returns
startScheduler_catch(p) ==
  /\ pc[p] = "tick_error"
  /\ Return(p)
  /\ UNCHANGED <<now, locks, queue, memos, settings, sched, commits, proc, hourCycle>>

\* what the runtime does with the rejected promise of a timer callback: it
\* reports it and goes on, or it ends the process (the default from Node.js 15)
UnhandledRejection == {"rejected", "exited"}

\* the ActivityLog.create of the catch block raises as well: after finally the
\* rejection leaves the callback, which nothing awaits
startScheduler_catch_fails(p) ==
  /\ pc[p] = "tick_error"
  /\ Return(p)
  /\ \E outcome \in UnhandledRejection : proc' = [proc EXCEPT ![p] = outcome]
  /\ UNCHANGED <<now, locks, queue, memos, settings, sched, commits, hourCycle>>

-----------------------------------------------------------------------------
(* Concurrent calls of tryAcquireLock: every worker makes one call *)

AllKeys == {SchedulerKey} \cup {PostKey(id) : id \in AllIds}

TtlOf(key) == IF key.kind = "scheduler" THEN SchedulerTtl ELSE ClaimTtl

tryAcquireLock_call(p) ==
  /\ pc[p] = "acquire"
  /\ locks' = LocksAfterAcquire(p, loc[p].key, TtlOf(loc[p].key))
  /\ Goto(p, "acquired",
          [loc[p] EXCEPT !.ret = IF tryAcquireLock(loc[p].key) THEN "true" ELSE "false"])
  /\ UNCHANGED <<now, queue, memos, settings, sched, commits, proc, hourCycle>>

-----------------------------------------------------------------------------
(* Specifications *)

FreshDoc == [status |-> "queued", scheduledAt |-> NoDate, postedAt |-> NoDate]

\* the queue after one upload
OneQueued == [id \in {1} |-> FreshDoc]

\* the queue after two uploads
TwoQueued == [id \in {1, 2} |-> FreshDoc]

InitWith(q) ==
  /\ now = 0
  /\ locks = <<>>
  /\ queue = q
  /\ memos = <<>>
  /\ settings = DefaultSettings
  /\ pc = [p \in Procs |-> "idle"]
  /\ loc = [p \in Procs |-> IdleLoc]
  /\ sched = [p \in Procs |-> FALSE]
  /\ commits = [id \in DOMAIN q |-> 0]
  /\ proc = [p \in Procs |-> "running"]
  /\ hourCycle \in HourCycles

Init == InitWith(OneQueued)

InitTicks == InitWith(TwoQueued)

TickBody(p) ==
  \/ scheduleRefill_count(p)
  \/ scheduleRefill_find(p)
  \/ scheduleRefill_dup(p)
  \/ scheduleRefill_save(p)
  \/ scheduleRefill_return(p)
  \/ postDueWithCaps_count_ig(p)
  \/ postDueWithCaps_count_yt(p)
  \/ postDueWithCaps_find(p)
  \/ postDueWithCaps_claim(p)
  \/ postDueWithCaps_dup(p)
  \/ postDueWithCaps_save(p)
  \/ postDueWithCaps_memo(p)

ManualBody(p) ==
  \/ postDueNow_dup(p)
  \/ postDueNow_save(p)
  \/ postDueNow_memo(p)

\* the timer callbacks of two scheduler instances on one store
NextTicks ==
  \/ Advance
  \/ TTLMonitor
  \/ \E p \in Procs : Tick(p) \/ TickBody(p)

SpecTicks == InitTicks /\ [][NextTicks]_vars

\* timer callbacks and the HTTP operations
Next ==
  \/ Advance
  \/ TTLMonitor
  \/ \E p \in Procs : Tick(p) \/ TickBody(p)
  \/ \E p \in Procs : postDueNow_find(p) \/ ManualBody(p)
  \/ \E p \in Procs : HttpRefill(p)

Spec == Init /\ [][Next]_vars

\* timer callbacks that may be abandoned, under the scheduling the runtime gives:
\* time passes, the TTL monitor runs, the timer fires and store operations complete
\* one instance, which after a crash is started again under the same name
LiveProcs == {"w1"}

NextLive ==
  \/ Advance
  \/ TTLMonitor
  \/ \E p \in LiveProcs : Tick(p) \/ TickBody(p)
  \/ \E p \in LiveProcs : Crash(p)

SpecLive ==
  /\ Init
  /\ [][NextLive]_vars
  /\ WF_vars(Advance)
  /\ WF_vars(TTLMonitor)
  /\ \A p \in LiveProcs : WF_vars(Tick(p) \/ TickBody(p))

\* the timer callback of one instance on a store whose operations may raise
FaultProcs == {"w1"}

NextFaults ==
  \/ Advance
  \/ TTLMonitor
  \/ \E p \in FaultProcs : Tick(p) \/ TickBody(p)
  \/ \E p \in FaultProcs : Tick_fails(p) \/ postDueWithCaps_claim_fails(p)
  \/ \E p \in FaultProcs : StoreFailure(p)
  \/ \E p \in FaultProcs : startScheduler_catch(p) \/ startScheduler_catch_fails(p)

SpecFaults == InitTicks /\ [][NextFaults]_vars

\* burst mode as POST /api/burst and /api/burst/config leave it: off, on from
\* 00:00 to 00:02 with one post per hour, on from 00:00 to 00:02 without a rate
BurstOptions ==
  {[enabled |-> FALSE, config |-> DefaultSettings.burstModeConfig],
   [enabled |-> TRUE,
    config |-> [startTime |-> <<0, 0>>, endTime |-> <<0, 2>>, postsPerHour |-> 1]],
   [enabled |-> TRUE,
    config |-> [startTime |-> <<0, 0>>, endTime |-> <<0, 2>>, postsPerHour |-> 0]]}

\* the Settings document after POST /api/settings and POST /api/burst
CapSettings ==
  {[DefaultSettings EXCEPT !.hourlyLimit = h, !.dailyLimit = d,
                           !.burstModeEnabled = b.enabled, !.burstModeConfig = b.config] :
     h \in 0..MaxHourlyLimit, d \in {1, DefaultDailyLimit}, b \in BurstOptions}

\* a seeded Instagram item, two Instagram uploads and a seeded YouTube item, none
\* a duplicate of another
FourQueued == [id \in {1, 2, 3, 9} |-> FreshDoc]

InitCaps ==
  /\ now = 0
  /\ locks = <<>>
  /\ queue = FourQueued
  /\ memos = <<>>
  /\ settings \in CapSettings
  /\ pc = [p \in Procs |-> "idle"]
  /\ loc = [p \in Procs |-> IdleLoc]
  /\ sched = [p \in Procs |-> FALSE]
  /\ commits = [id \in DOMAIN FourQueued |-> 0]
  /\ proc = [p \in Procs |-> "running"]
  /\ hourCycle \in HourCycles

\* the timer callback of one instance under the configured caps
CapProcs == {"w1"}

NextCaps ==
  \/ Advance
  \/ TTLMonitor
  \/ \E p \in CapProcs : Tick(p) \/ TickBody(p)

SpecCaps == InitCaps /\ [][NextCaps]_vars

\* the instance whose timer callback runs and the one that serves a request
TimerProcs == {"w1"}
RequestProcs == {"w2"}

\* the Settings document after POST /api/settings, burst mode off
LimitSettings ==
  {[DefaultSettings EXCEPT !.hourlyLimit = h] : h \in 0..MaxHourlyLimit}

InitManual ==
  /\ now = 0
  /\ locks = <<>>
  /\ queue = TwoQueued
  /\ memos = <<>>
  /\ settings \in LimitSettings
  /\ pc = [p \in Procs |-> "idle"]
  /\ loc = [p \in Procs |-> IdleLoc]
  /\ sched = [p \in Procs |-> FALSE]
  /\ commits = [id \in DOMAIN TwoQueued |-> 0]
  /\ proc = [p \in Procs |-> "running"]
  /\ hourCycle \in HourCycles

\* the timer callback of one instance under the configured cap, and POST
\* /api/post-now or /api/manual-post served by another
NextManual ==
  \/ Advance
  \/ TTLMonitor
  \/ \E p \in TimerProcs : Tick(p) \/ TickBody(p)
  \/ \E p \in RequestProcs : postDueNow_find(p) \/ ManualBody(p)

SpecManual == InitManual /\ [][NextManual]_vars

\* setInterval(..., 60 * 1000) over hours: the timer fires one period after the
\* other, each time after the callback before it has returned, and the callback
\* starts with tryAcquireLock('scheduler', 55).  The store's TTL monitor has a
\* period of its own: it may pass just before the callback (swept), and no lock
\* document stays expired for a whole timer period.
startScheduler_interval(p) ==
  /\ pc[p] = "idle"
  /\ proc[p] # "exited"
  /\ now + TickPeriod <= ProgressHorizon
  /\ \A i \in DOMAIN locks : locks[i].expiresAt > now
  /\ now' = now + TickPeriod
  /\ \E swept \in BOOLEAN :
       LET t == now + TickPeriod
           kept == IF swept THEN SelectSeq(locks, LAMBDA r : r.expiresAt > t) ELSE locks
           have == \A i \in DOMAIN kept : kept[i].key # SchedulerKey
       IN /\ locks' = IF have
                      THEN Append(kept, [key |-> SchedulerKey,
                                         expiresAt |-> t + SchedulerTtl, by |-> p])
                      ELSE kept
          /\ sched' = [sched EXCEPT ![p] = have]
          /\ IF have
             THEN Goto(p, "refill_count",
                       [IdleLoc EXCEPT !.op = "tick", !.lockExp = t + SchedulerTtl])
             ELSE UNCHANGED <<pc, loc>>
  /\ UNCHANGED <<queue, memos, settings, commits, proc, hourCycle>>

\* the Settings document after POST /api/settings with an hourly limit above
\* zero, burst mode off
PositiveLimitSettings ==
  {[DefaultSettings EXCEPT !.hourlyLimit = h] : h \in 1..MaxHourlyLimit}

\* the store an instance finds when it starts: two uploads, or what an instance
\* left that crashed in its second tick right after it claimed the first of the
\* two candidates its first tick had scheduled
StoreAtStart ==
  {[now |-> 0, queue |-> TwoQueued, locks |-> <<>>],
   [now |-> TickPeriod,
    queue |-> [id \in {1, 2} |->
                 [status |-> "scheduled",
                  scheduledAt |-> (id - 1) * StaggerStep + StaggerBase,
                  postedAt |-> NoDate]],
    locks |-> <<[key |-> SchedulerKey, expiresAt |-> TickPeriod + SchedulerTtl, by |-> "other"],
                [key |-> PostKey(1), expiresAt |-> TickPeriod + ClaimTtl, by |-> "other"]>>]}

InitProgress ==
  /\ \E st \in StoreAtStart : now = st.now /\ queue = st.queue /\ locks = st.locks
  /\ memos = <<>>
  /\ settings \in PositiveLimitSettings
  /\ pc = [p \in Procs |-> "idle"]
  /\ loc = [p \in Procs |-> IdleLoc]
  /\ sched = [p \in Procs |-> FALSE]
  /\ commits = [id \in {1, 2} |-> 0]
  /\ proc = [p \in Procs |-> "running"]
  /\ hourCycle \in HourCycles

NextProgress ==
  \/ TTLMonitor
  \/ \E p \in TimerProcs : startScheduler_interval(p) \/ TickBody(p)

\* the timer fires forever, the store completes every operation and its TTL
\* monitor runs.  The last conjunct is WF_vars(TickBody(p)) written out: a step
\* of the body is enabled exactly while the callback has not returned.
SpecProgress ==
  /\ InitProgress
  /\ [][NextProgress]_vars
  /\ WF_vars(TTLMonitor)
  /\ \A p \in TimerProcs : WF_vars(startScheduler_interval(p))
  /\ \A p \in TimerProcs : []<>(pc[p] = "idle") \/ []<><<TickBody(p)>>_vars

\* a document of the queue as seeding, a refill or a post left it
StoredDoc(status) ==
  CASE status = "queued" -> FreshDoc
    [] status = "scheduled" ->
         [status |-> "scheduled", scheduledAt |-> StaggerBase, postedAt |-> NoDate]
    [] status = "posted" ->
         [status |-> "posted", scheduledAt |-> StaggerBase, postedAt |-> TimeStep]

\* the seeded items and three uploads; items 1 and 2 may have been posted, items
\* 1, 2, 3 and 9 promoted, the others are queued
RefillIds == {1, 2, 3, 4, 5, 6, 7, 9, 13}

RefillStatuses ==
  {st \in [RefillIds -> {"queued", "scheduled", "posted"}] :
     /\ \A id \in RefillIds : st[id] = "posted" => id \in {1, 2}
     /\ \A id \in RefillIds : st[id] = "scheduled" => id \in {1, 2, 3, 9}}

\* the seeded YouTube item behind a folder of a hundred files from
\* POST /api/upload/dropbox-folder
BulkQueue == [id \in {3} \cup BulkIds |-> FreshDoc]

RefillQueues ==
  {[id \in RefillIds |-> StoredDoc(st[id])] : st \in RefillStatuses} \cup {BulkQueue}

\* the PostedMemo documents of the posted items of queue q
MemosOfPosted(q) ==
  LET posted == SortIds({id \in DOMAIN q : q[id].status = "posted"}, "none")
  IN [k \in DOMAIN posted |->
        [platform |-> Catalog[posted[k]].platform, postedAt |-> q[posted[k]].postedAt,
         visualHash |-> Catalog[posted[k]].visualHash,
         captionNorm |-> CaptionNormOf(posted[k]),
         durationSec |-> Catalog[posted[k]].durationSec, src |-> posted[k]]]

\* minimumIGLikesToRepost as POST /api/settings leaves it: the default, the
\* likes of an uploaded file, one more
MinLikesOptions == {DefaultMinLikes, Documents[2].likes, Documents[2].likes + 1}

InitRefill ==
  /\ now = TimeStep
  /\ locks = <<>>
  /\ queue \in RefillQueues
  /\ memos = MemosOfPosted(queue)
  /\ settings \in {[DefaultSettings EXCEPT !.minimumIGLikesToRepost = m] :
                     m \in MinLikesOptions}
  /\ pc = [p \in Procs |-> "idle"]
  /\ loc = [p \in Procs |-> IdleLoc]
  /\ sched = [p \in Procs |-> FALSE]
  /\ commits = [id \in DOMAIN queue |-> IF queue[id].status = "posted" THEN 1 ELSE 0]
  /\ proc = [p \in Procs |-> "running"]
  /\ hourCycle = "h23"   \* read by postDueWithCaps only, which does not run here

RefillBody(p) ==
  \/ scheduleRefill_find(p)
  \/ scheduleRefill_dup(p)
  \/ scheduleRefill_save(p)
  \/ scheduleRefill_return(p)

\* requests of POST /api/autopilot/refill and POST /api/autopilot/run, one at a time
NextRefill ==
  \/ Advance
  \/ \E p \in RequestProcs : HttpRefill(p) \/ RefillBody(p)

SpecRefill == InitRefill /\ [][NextRefill]_vars

\* the documents that are classified and that were posted
ClassifyIds == {1, 3, 4, 8, 9, 10, 11, 13, 14}

\* up to MaxPosted of them posted, in the order of their PostedMemo documents
MaxPosted == 2

PostedOrders ==
  UNION {{o \in [1..n -> ClassifyIds] : \A a, b \in 1..n : a # b => o[a] # o[b]} :
           n \in 0..MaxPosted}

\* recentPostsWindowCount as POST /api/settings leaves it: unset, one, the default
WindowOptions == {0, 1, DefaultWindowN}

InitClassify ==
  /\ now = TimeStep
  /\ locks = <<>>
  /\ \E o \in PostedOrders : \E at \in [DOMAIN o -> {0, TimeStep}] :
       /\ queue = [id \in ClassifyIds |->
                     IF \E k \in DOMAIN o : o[k] = id
                     THEN [status |-> "posted", scheduledAt |-> 0,
                           postedAt |-> at[CHOOSE k \in DOMAIN o : o[k] = id]]
                     ELSE FreshDoc]
       /\ memos = [k \in DOMAIN o |->
                     [platform |-> Catalog[o[k]].platform, postedAt |-> at[k],
                      visualHash |-> Catalog[o[k]].visualHash,
                      captionNorm |-> CaptionNormOf(o[k]),
                      durationSec |-> Catalog[o[k]].durationSec, src |-> o[k]]]
  /\ settings \in {[DefaultSettings EXCEPT !.recentPostsWindowCount = n] :
                     n \in WindowOptions}
  /\ pc = [p \in Procs |-> "idle"]
  /\ loc = [p \in Procs |-> IdleLoc]
  /\ sched = [p \in Procs |-> FALSE]
  /\ commits = [id \in DOMAIN queue |-> IF queue[id].status = "posted" THEN 1 ELSE 0]
  /\ proc = [p \in Procs |-> "running"]
  /\ hourCycle = "h23"   \* read by postDueWithCaps only, which does not run here

\* requests of POST /api/debug/similarity-check and of POST /api/autopilot/refill,
\* one at a time
NextClassify ==
  \/ \E p \in RequestProcs :
       similarity_check(p) \/ similarity_check_recent(p) \/ similarity_check_respond(p)
  \/ \E p \in RequestProcs : HttpRefill(p) \/ RefillBody(p)

SpecClassify == InitClassify /\ [][NextClassify]_vars

\* zero-padded HH:mm values of a burst window, <<>> for a bound that is missing
HHmmValues == {<<0, 0>>, <<0, 1>>, <<0, 59>>, <<1, 0>>, <<12, 0>>, <<23, 59>>}

WindowBounds == HHmmValues \cup {<<>>}

\* the instants of the day at which the clock reads one of these values
DayInstants == {(hm[1] * HourSec) + (hm[2] * 60) : hm \in HHmmValues}

\* the burst settings as POST /api/burst and POST /api/burst/config leave them
WindowSettings ==
  {[DefaultSettings EXCEPT !.burstModeEnabled = en,
                           !.burstModeConfig = [startTime |-> st, endTime |-> et,
                                                postsPerHour |-> 1]] :
     en \in BOOLEAN, st \in WindowBounds, et \in WindowBounds}

InitWindow ==
  /\ now \in DayInstants
  /\ locks = <<>>
  /\ queue = OneQueued
  /\ memos = <<>>
  /\ settings \in WindowSettings
  /\ pc = [p \in Procs |-> "idle"]
  /\ loc = [p \in Procs |-> IdleLoc]
  /\ sched = [p \in Procs |-> FALSE]
  /\ commits = [id \in DOMAIN OneQueued |-> 0]
  /\ proc = [p \in Procs |-> "running"]
  /\ hourCycle \in HourCycles

\* one timer callback at an instant of the day, up to the query for due items
NextWindow ==
  \E p \in TimerProcs :
    \/ Tick(p)
    \/ scheduleRefill_count(p)
    \/ scheduleRefill_find(p)
    \/ scheduleRefill_dup(p)
    \/ scheduleRefill_save(p)
    \/ scheduleRefill_return(p)
    \/ postDueWithCaps_count_ig(p)
    \/ postDueWithCaps_count_yt(p)
    \/ postDueWithCaps_find(p)

SpecWindow == InitWindow /\ [][NextWindow]_vars

\* two seeded Instagram items whose visual hashes differ in one bit
NearDuplicates == [id \in {1, 4} |-> FreshDoc]

InitFresh == InitWith(NearDuplicates)

NextFresh ==
  \/ Advance
  \/ TTLMonitor
  \/ \E p \in TimerProcs : Tick(p) \/ TickBody(p)
  \/ \E p \in RequestProcs : postDueNow_find(p) \/ ManualBody(p)

SpecFresh == InitFresh /\ [][NextFresh]_vars

\* every worker calls tryAcquireLock once, on a key that is free or held by another
HeldBy(keys) ==
  LET all == <<SchedulerKey, PostKey(1), PostKey(2)>>
      recs == [i \in DOMAIN all |->
                 [key |-> all[i], expiresAt |-> TtlOf(all[i]), by |-> "other"]]
  IN SelectSeq(recs, LAMBDA r : r.key \in keys)

InitRace ==
  /\ now = 0
  /\ \E keys \in SUBSET {SchedulerKey, PostKey(1), PostKey(2)} : locks = HeldBy(keys)
  /\ queue = TwoQueued
  /\ memos = <<>>
  /\ settings = DefaultSettings
  /\ pc = [p \in Procs |-> "acquire"]
  /\ loc \in [Procs -> {[IdleLoc EXCEPT !.op = "acquire", !.key = k] :
                          k \in {SchedulerKey, PostKey(1), PostKey(2)}}]
  /\ sched = [p \in Procs |-> FALSE]
  /\ commits = [id \in DOMAIN TwoQueued |-> 0]
  /\ proc = [p \in Procs |-> "running"]
  /\ hourCycle \in HourCycles

NextRace == \E p \in Procs : tryAcquireLock_call(p)

SpecRace == InitRace /\ [][NextRace]_vars

-----------------------------------------------------------------------------
(* Properties *)

InTickBody(p) == loc[p].op = "tick"

LiveLock(key) == \E i \in LockRecords(key) : locks[i].expiresAt > now

MemosFor(id) == {i \in DOMAIN memos : memos[i].src = id}

\* the step in which worker p's timer callback calls tryAcquireLock('scheduler', 55)
TickCall(p) == pc[p] = "idle" /\ Tick(p)

\* the step in which worker p calls tryAcquireLock('post:<id>', 120)
ClaimCall(p) == pc[p] = "post_claim" /\ postDueWithCaps_claim(p)

\* C1: over any interleaving of tick bodies, every candidate is set to 'posted'
\* at most once and at most one PostedMemo is created for it.
C1_PostedAtMostOnce ==
  \A id \in Ids : commits[id] <= 1 /\ Cardinality(MemosFor(id)) <= 1

\* C2: over ticks and manual post operations running concurrently, at most one
\* PostedMemo is created for a candidate.
C2_OneRecordPerCandidate ==
  \A id \in Ids : Cardinality(MemosFor(id)) <= 1

\* C3 (as claimed): at every instant at most one worker is executing a tick body.
C3_OneTickBody == Cardinality({p \in Procs : InTickBody(p)}) <= 1

\* C3 (amended): at every instant at most one worker is executing a tick body
\* entered under a 'scheduler' lock whose expiresAt has not passed.
C3_OneUnexpiredTickBody ==
  Cardinality({p \in Procs : InTickBody(p) /\ loc[p].lockExp > now}) <= 1

\* two tick bodies overlap, the lock of one expired and the lock of the other not
C3_Overlap ==
  \E p, q \in Procs : /\ InTickBody(p) /\ loc[p].lockExp <= now
                      /\ InTickBody(q) /\ loc[q].lockExp > now

\* C4: of the concurrent tryAcquireLock calls on a key that had no lock document,
\* exactly one returns true, whatever the order in which they reach the store.
C4_ExactlyOneWins ==
  \A k \in AllKeys :
    LET returned == {p \in Procs : loc[p].key = k /\ pc[p] = "acquired"}
        free == \A i \in LockRecords(k) : locks[i].by # "other"
    IN (free /\ returned # {}) =>
         Cardinality({p \in returned : loc[p].ret = "true"}) = 1

\* both workers called tryAcquireLock on the same free key and both calls returned
C4_BothReturned ==
  \E k \in AllKeys :
    /\ \A i \in LockRecords(k) : locks[i].by # "other"
    /\ \A p \in Procs : loc[p].key = k /\ pc[p] = "acquired"

\* C5: in every reachable state each key has at most one lock document.
C5_OneRecordPerKey ==
  \A k \in AllKeys : Cardinality(LockRecords(k)) <= 1

\* both workers run a tick body, the 'scheduler' key and a claim key are taken
C5_Contended ==
  /\ \A p \in Procs : InTickBody(p)
  /\ LockRecords(SchedulerKey) # {}
  /\ \E id \in Ids : LockRecords(PostKey(id)) # {}

LastInstant == MaxNow - (MaxNow % TimeStep)

\* C7: a lock document is eventually removed, also when the callback that
\* created it is abandoned, and with the timer firing a tick eventually acquires
\* the 'scheduler' lock again.
C7_NoPermanentLock ==
  /\ \A k \in AllKeys :
       (\E i \in LockRecords(k) : locks[i].expiresAt <= LastInstant) ~> (LockRecords(k) = {})
  /\ (LockRecords(SchedulerKey) = {}) ~> (LockRecords(SchedulerKey) # {})

\* a callback was abandoned between item.save() and PostedMemo.create, and a
\* later tick holds the 'scheduler' lock
C7_ReacquiredAfterCrash ==
  /\ \E id \in Ids : commits[id] = 1 /\ MemosFor(id) = {}
  /\ \A p \in Procs : pc[p] # "post_memo"
  /\ \E i \in LockRecords(SchedulerKey) : locks[i].expiresAt > 2 * TimeStep

\* C8: a timer callback whose tryAcquireLock('scheduler', 55) returns false
\* changes no candidate, no PostedMemo and no lock, and returns.
C8_FailedTickNoop ==
  [][\A p \in Procs :
       (TickCall(p) /\ ~tryAcquireLock(SchedulerKey)) =>
         (queue' = queue /\ memos' = memos /\ locks' = locks /\ pc' = pc /\ loc' = loc)]_vars

\* a timer callback returned without the lock while a candidate was scheduled
C8_FailedTick ==
  \E p \in Procs :
    /\ pc[p] = "idle" /\ ~sched[p]
    /\ \E i \in LockRecords(SchedulerKey) : locks[i].by = p /\ locks[i].expiresAt > now
    /\ \E id \in Ids : queue[id].status = "scheduled"

\* C9: every change of a candidate's status is queued->scheduled, queued->skipped,
\* scheduled->posted or scheduled->skipped.
C9_StatusMonotone ==
  [][\A id \in Ids :
       \/ queue'[id].status = queue[id].status
       \/ <<queue[id].status, queue'[id].status>> \in
            {<<"queued", "scheduled">>, <<"queued", "skipped">>,
             <<"scheduled", "posted">>, <<"scheduled", "skipped">>}]_vars

\* C10: scheduledAt changes only in the step that takes the candidate from
\* queued to scheduled, and so at most once.
C10_ScheduledAtOnce ==
  [][\A id \in Ids :
       queue'[id].scheduledAt # queue[id].scheduledAt =>
         /\ queue[id].scheduledAt = NoDate
         /\ queue[id].status = "queued"
         /\ queue'[id].status = "scheduled"]_vars

\* the PostedMemo documents created for candidate id at its postedAt
RecordsOf(id) ==
  {i \in MemosFor(id) : /\ memos[i].platform = Catalog[id].platform
                        /\ memos[i].postedAt = queue[id].postedAt}

\* a worker is between item.save() and PostedMemo.create of candidate id
Committing(id) ==
  \E p \in Procs : /\ pc[p] \in {"post_memo", "now_memo"}
                   /\ loc[p].list[loc[p].i] = id

\* C11: in every state in which no worker is between the two writes of a post,
\* a candidate is 'posted' with postedAt set if and only if exactly one
\* PostedMemo with its platform and postedAt was created for it.
C11_PostedIffOneRecord ==
  \A id \in Ids :
    ~Committing(id) =>
      ((queue[id].status = "posted" /\ queue[id].postedAt # NoDate)
         <=> Cardinality(RecordsOf(id)) = 1)

\* C17: no rejection leaves a timer callback and no process ends, whatever
\* store operations raise; so the timer of every instance goes on firing.
C17_TickFaultIsolation ==
  \A p \in Procs : proc[p] = "running"

\* the labels of the loop of postDueWithCaps
PostLoop == {"post_claim", "post_dup", "post_save", "post_memo"}

\* the number of items of a platform the invocation of worker p saved as 'posted'
PostedBy(p, platform) ==
  Cardinality({k \in DOMAIN loc[p].done : Catalog[loc[p].done[k]].platform = platform})

\* C12: with c the count of a platform that an invocation of postDueWithCaps took
\* for the trailing hour and cap its hourly limit, the invocation posts at most
\* max(0, cap - c) items of the platform; and when c >= cap no step taken while
\* the invocation runs moves a 'scheduled' item of the platform out of 'scheduled'.
C12_HourlyCapPerInvocation ==
  [][\A p \in Procs : \A pl \in Platforms :
       /\ (loc'[p].op = "tick" /\ pc'[p] \in PostLoop) =>
            LET room == loc'[p].hourlyLimit - loc'[p].base[pl]
            IN PostedBy(p, pl)' <= (IF room > 0 THEN room ELSE 0)
       /\ (/\ loc[p].op = "tick"
           /\ pc[p] \in PostLoop \cup {"post_find"}
           /\ loc[p].base[pl] >= loc[p].hourlyLimit) =>
            \A id \in Ids :
              (Catalog[id].platform = pl /\ queue[id].status = "scheduled")
                => queue'[id].status = "scheduled"]_vars

\* an invocation has posted as many items of a platform as the cap left room
\* for, and has passed over a due item of that platform, which is still 'scheduled'
C12_CapReached ==
  \E p \in Procs : \E pl \in Platforms :
    /\ loc[p].op = "tick"
    /\ pc[p] \in PostLoop
    /\ PostedBy(p, pl) >= 1
    /\ PostedBy(p, pl) = loc[p].hourlyLimit - loc[p].base[pl]
    /\ \E k \in 1..(loc[p].i - 1) :
         /\ Catalog[loc[p].list[k]].platform = pl
         /\ queue[loc[p].list[k]].status = "scheduled"

\* an invocation that counted a platform at its cap finds a due item of it
C12_AtCapFromStart ==
  \E p \in Procs : \E pl \in Platforms :
    /\ loc[p].op = "tick"
    /\ pc[p] \in PostLoop
    /\ loc[p].base[pl] >= 1
    /\ loc[p].base[pl] >= loc[p].hourlyLimit
    /\ \E k \in DOMAIN loc[p].list : Catalog[loc[p].list[k]].platform = pl

DaySec == 24 * HourSec

\* C13: the number of candidates of a platform posted within the last day never
\* exceeds the dailyLimit of the settings.
C13_DailyCap ==
  \A pl \in Platforms : CountPostedSince(pl, now - DaySec) <= settings.dailyLimit

\* the N most recent PostedMemo documents of the platform of candidate id
WindowOf(id) ==
  getLastNPosted(Catalog[id].platform,
                 IF settings.recentPostsWindowCount = 0 THEN DefaultWindowN
                 ELSE settings.recentPostsWindowCount)

\* C14: whenever the PostedMemo of a candidate is appended, the candidate is not
\* a duplicate, by any of the three rules, of any of the N most recent PostedMemo
\* documents of its platform that exist at that moment and belong to other
\* candidates.
C14_FreshAtCommit ==
  [][Len(memos') > Len(memos) =>
       LET id == memos'[Len(memos')].src
           window == WindowOf(id)
       IN \A k \in DOMAIN window :
            window[k].src # id => ItemVerdict(id, window[k]) = "none"]_vars

\* candidate id meets the engagement minimum and is not a duplicate
Eligible(id) == ~BelowMinimum(id) /\ isDuplicateCandidate(id) = "none"

ElementsOf(seq) == {seq[k] : k \in DOMAIN seq}

LikesDescending(seq) ==
  \A a, b \in DOMAIN seq : a < b => Catalog[seq[a]].likes >= Catalog[seq[b]].likes

\* worker p is at the return of a scheduleRefill that found the backlog short
RefillDone(p) == pc[p] = "refill_return" /\ loc[p].need > 0

\* the candidates of the invocation are up to a hundred of the candidates queued
\* at its start, none of the others has more likes, in descending order of likes
FirstHundred(p) ==
  LET list == loc[p].list
      q0 == loc[p].q0
  IN /\ ElementsOf(list) \subseteq q0
     /\ Cardinality(ElementsOf(list)) = Len(list)
     /\ Len(list) = (IF Cardinality(q0) < RefillLimit THEN Cardinality(q0) ELSE RefillLimit)
     /\ LikesDescending(list)
     /\ \A a \in ElementsOf(list) : \A b \in q0 \ ElementsOf(list) :
          Catalog[a].likes >= Catalog[b].likes

\* the j-th promotion is scheduled 30 s + 60 s per earlier promotion after the
\* time of its save, and the times of the saves do not decrease
Staggered(p) ==
  LET promoted == loc[p].promoted
      savedAt == [j \in DOMAIN promoted |->
                    queue[promoted[j]].scheduledAt - (StaggerBase + StaggerStep * (j - 1))]
  IN \A j \in DOMAIN promoted :
       /\ queue[promoted[j]].status = "scheduled"
       /\ savedAt[j] >= 0
       /\ savedAt[j] <= now
       /\ j > 1 => /\ savedAt[j - 1] <= savedAt[j]
                   /\ queue[promoted[j - 1]].scheduledAt < queue[promoted[j]].scheduledAt

\* C15 as stated: a scheduleRefill with k = target - scheduled > 0 promotes
\* exactly the first k eligible candidates, in descending order of likes, of all
\* the candidates queued at its start, with strictly increasing scheduledAt.
C15_TopKOfAllQueued ==
  \A p \in Procs :
    RefillDone(p) =>
      LET eligible == {id \in loc[p].q0 : Eligible(id)}
          promoted == ElementsOf(loc[p].promoted)
      IN /\ promoted \subseteq eligible
         /\ Cardinality(promoted) = Len(loc[p].promoted)
         /\ Cardinality(promoted) =
              (IF Cardinality(eligible) < loc[p].need THEN Cardinality(eligible)
               ELSE loc[p].need)
         /\ \A a \in promoted : \A b \in eligible \ promoted :
              Catalog[a].likes >= Catalog[b].likes
         /\ LikesDescending(loc[p].promoted)
         /\ Staggered(p)

\* C15, amended: a scheduleRefill with k = target - scheduled > 0 promotes
\* exactly the first k eligible candidates among the first hundred candidates
\* queued at its start in descending order of likes, in that order, with strictly
\* increasing scheduledAt, each 30 s + 60 s per earlier promotion after its save.
C15_TopKOfFirstHundred ==
  \A p \in Procs :
    RefillDone(p) =>
      /\ FirstHundred(p)
      /\ loc[p].promoted =
           FirstN(SelectSeq(loc[p].list, LAMBDA id : Eligible(id)), loc[p].need)
      /\ Staggered(p)

\* a refill of more than a hundred queued candidates has promoted as many as needed
C15_HundredPulled ==
  \E p \in Procs :
    /\ RefillDone(p)
    /\ Cardinality(loc[p].q0) > RefillLimit
    /\ Len(loc[p].list) = RefillLimit
    /\ Len(loc[p].promoted) = loc[p].need

\* a refill has promoted two candidates or more and passed over a candidate with
\* more likes than the last of them
C15_PassedOver ==
  \E p \in Procs :
    /\ RefillDone(p)
    /\ Len(loc[p].promoted) >= 2
    /\ \E id \in ElementsOf(loc[p].list) \ ElementsOf(loc[p].promoted) :
         Catalog[id].likes > Catalog[loc[p].promoted[Len(loc[p].promoted)]].likes

\* the labels of scheduleRefill
RefillLabels == {"refill_find", "refill_dup", "refill_save", "refill_return"}

\* C16: a scheduleRefill(target) promotes nothing when the scheduled count is
\* already >= target and at most target - scheduled candidates otherwise; its
\* loop goes on only while fewer than that were added; the scheduled count is
\* the count at its start plus the promotions, and never above target once it
\* has promoted.
C16_RefillBound ==
  \A p \in Procs :
    (loc[p].op = "refill" /\ pc[p] \in RefillLabels) =>
      LET added == Len(loc[p].promoted)
      IN /\ added <= (IF loc[p].need > 0 THEN loc[p].need ELSE 0)
         /\ loc[p].added = added
         /\ pc[p] \in {"refill_dup", "refill_save"} => added < loc[p].need
         /\ CountStatus("scheduled") = loc[p].threshold - loc[p].need + added
         /\ added > 0 => CountStatus("scheduled") <= loc[p].threshold

\* a refill stopped at the number needed, the backlog is at target and an
\* eligible candidate is left queued
C16_StoppedAtNeed ==
  \E p \in Procs :
    /\ pc[p] = "refill_return"
    /\ loc[p].need >= 1
    /\ Len(loc[p].promoted) = loc[p].need
    /\ CountStatus("scheduled") = loc[p].threshold
    /\ \E id \in ElementsOf(loc[p].list) : queue[id].status = "queued" /\ Eligible(id)

\* a refill found the backlog at target or above
C16_BacklogFull ==
  \E p \in Procs :
    /\ pc[p] = "refill_return"
    /\ loc[p].op = "refill"
    /\ loc[p].need <= 0

\* a similarity dot / (sqrt(na) * sqrt(nb)) is 0, is 1
SimIsZero(sim) == sim.na = 0 \/ sim.nb = 0 \/ sim.dot = 0
SimIsOne(sim) == sim.na > 0 /\ sim.nb > 0 /\ sim.dot * sim.dot = sim.na * sim.nb

\* the response of worker p to a similarity check is out
Checked(p) == pc[p] = "check_respond"

\* C18: in every response of the similarity check, the caption similarity of a
\* non-empty text with itself is 1, and the similarity is 0 when the text of the
\* candidate or that of the window item is empty, also when both are.
C18_CosineIdentityAndEmpty ==
  \A p \in Procs :
    Checked(p) =>
      \A k \in DOMAIN loc[p].sample :
        LET a == CaptionNormOf(loc[p].list[1])
            b == loc[p].sample[k].captionNorm
            sim == loc[p].sample[k].distances.captionSim
        IN /\ (a = b /\ a # <<>>) => SimIsOne(sim)
           /\ (a = <<>> \/ b = <<>>) => SimIsZero(sim)

\* C19: in every response of the similarity check, the visual distance is above
\* 8 whenever the hash of the candidate or of the window item is absent; and
\* whenever the similarity check or isDuplicateCandidate in a refill answers
\* 'duplicate_visual', the candidate has a hash and so has a window item within
\* distance 8 of it.
C19_AbsentHashNeverVisual ==
  \A p \in Procs :
    /\ Checked(p) =>
         \A k \in DOMAIN loc[p].sample :
           (Catalog[loc[p].list[1]].visualHash = <<>> \/ loc[p].sample[k].visualHash = <<>>)
             => loc[p].sample[k].distances.visualHamming > VisualMaxBits
    /\ ((Checked(p) \/ pc[p] = "refill_save") /\ loc[p].dup = "duplicate_visual") =>
         LET id == loc[p].list[loc[p].i]
             window == WindowOf(id)
         IN /\ Catalog[id].visualHash # <<>>
            /\ \E k \in DOMAIN window :
                 /\ window[k].visualHash # <<>>
                 /\ HammingOfNumbers(Catalog[id].visualHash, window[k].visualHash)
                      <= VisualMaxBits

\* a candidate without a hash was checked against a window item without a hash
C19_BothAbsent ==
  \E p \in Procs :
    /\ Checked(p)
    /\ Catalog[loc[p].list[1]].visualHash = <<>>
    /\ \E k \in DOMAIN loc[p].sample : loc[p].sample[k].visualHash = <<>>

\* a refill classified a candidate without a hash against a window item with one
C19_AbsentInRefill ==
  \E p \in Procs :
    /\ pc[p] = "refill_save"
    /\ Catalog[loc[p].list[loc[p].i]].visualHash = <<>>
    /\ \E k \in DOMAIN WindowOf(loc[p].list[loc[p].i]) :
         WindowOf(loc[p].list[loc[p].i])[k].visualHash # <<>>

\* the rules on candidate id and window item r, from the distances
VisualRule(id, r) ==
  hammingDistanceHex(Catalog[id].visualHash, r.visualHash) <= VisualMaxBits
CaptionRule(id, r) ==
  SimAtLeast(cosineSimFromTokens(CaptionNormOf(id), r.captionNorm), CaptionPct)
CaptionDurationRule(id, r) ==
  /\ SimAtLeast(cosineSimFromTokens(CaptionNormOf(id), r.captionNorm), CaptionDurPct)
  /\ Abs(Catalog[id].durationSec - r.durationSec) <= DurMaxDelta
AnyRule(id, r) == VisualRule(id, r) \/ CaptionRule(id, r) \/ CaptionDurationRule(id, r)

\* the window is the N most recent PostedMemo documents of the platform, the
\* most recent first
MostRecentFirst(id) ==
  LET window == WindowOf(id)
      windowN == IF settings.recentPostsWindowCount = 0 THEN DefaultWindowN
                 ELSE settings.recentPostsWindowCount
      all == MemosOf(Catalog[id].platform)
  IN /\ Len(window) = (IF Cardinality(all) < windowN THEN Cardinality(all) ELSE windowN)
     /\ \A k \in DOMAIN window : \E i \in all : memos[i] = window[k]
     /\ \A k, l \in DOMAIN window : k < l => window[k].postedAt >= window[l].postedAt
     /\ \A i \in all :
          (\A k \in DOMAIN window : memos[i] # window[k]) =>
            \A k \in DOMAIN window : memos[i].postedAt <= window[k].postedAt

\* the verdict the claim describes for candidate id
ExpectedVerdict(id) ==
  LET window == WindowOf(id)
      hits == {k \in DOMAIN window : AnyRule(id, window[k])}
  IN IF hits = {} THEN "none"
     ELSE LET first == CHOOSE k \in hits : \A m \in hits : k <= m
          IN IF VisualRule(id, window[first]) THEN "duplicate_visual"
             ELSE IF CaptionRule(id, window[first]) THEN "duplicate_caption"
             ELSE "duplicate_caption_duration"

\* C20: the verdict of isDuplicateCandidate in a refill is the reason of the
\* first item, most recent first, of the window that matches a rule, the rules
\* taken in the order visual, caption, caption with duration; it is
\* not-duplicate iff no item of the window matches a rule.
C20_ClassifierVerdict ==
  \A p \in Procs :
    pc[p] = "refill_save" =>
      LET id == loc[p].list[loc[p].i]
      IN /\ MostRecentFirst(id)
         /\ loc[p].dup = ExpectedVerdict(id)
         /\ loc[p].dup = "none" <=> \A k \in DOMAIN WindowOf(id) : ~AnyRule(id, WindowOf(id)[k])

\* a verdict came from the second item of the window, the first matching no
\* rule, by the caption rule although the durations differ by more than 1
C20_SecondItemMatches ==
  \E p \in Procs :
    /\ pc[p] = "refill_save"
    /\ LET id == loc[p].list[loc[p].i]
           window == WindowOf(id)
       IN /\ Len(window) >= 2
          /\ ~AnyRule(id, window[1])
          /\ loc[p].dup = "duplicate_caption"
          /\ ~VisualRule(id, window[2])
          /\ Abs(Catalog[id].durationSec - window[2].durationSec) > DurMaxDelta

\* a verdict 'duplicate_visual' for an item that matches the caption rule too
C20_VisualBeforeCaption ==
  \E p \in Procs :
    /\ pc[p] = "refill_save"
    /\ loc[p].dup = "duplicate_visual"
    /\ CaptionRule(loc[p].list[loc[p].i], WindowOf(loc[p].list[loc[p].i])[1])

\* a verdict 'duplicate_caption_duration'
C20_CaptionDuration ==
  \E p \in Procs :
    pc[p] = "refill_save" /\ loc[p].dup = "duplicate_caption_duration"

\* a refill set aside a candidate whose caption is empty as 'duplicate_caption'
\* of a posted item whose caption is empty
C18_EmptyCaptionsMatch ==
  \E p \in Procs :
    /\ pc[p] = "refill_save"
    /\ loc[p].dup = "duplicate_caption"
    /\ CaptionNormOf(loc[p].list[loc[p].i]) = <<>>
    /\ \A k \in DOMAIN WindowOf(loc[p].list[loc[p].i]) :
         WindowOf(loc[p].list[loc[p].i])[k].captionNorm = <<>>

\* worker p runs postDueWithCaps and has computed burstActive and hourlyLimit
CapComputed(p) ==
  loc[p].op = "tick" /\ pc[p] \in {"post_count_yt", "post_find"} \cup PostLoop

\* C21: the cap an invocation of postDueWithCaps applies is postsPerHour of the
\* burst configuration whenever it found burst mode active, whatever the value
\* of postsPerHour, 0 included, and hourlyLimit otherwise.
C21_CapIsBurstRate ==
  \A p \in Procs :
    CapComputed(p) =>
      loc[p].hourlyLimit = (IF loc[p].burst THEN settings.burstModeConfig.postsPerHour
                            ELSE settings.hourlyLimit)

\* the cap is postsPerHour when burst is active with a rate other than 0
C21_BurstRateApplied ==
  \E p \in Procs :
    /\ CapComputed(p)
    /\ loc[p].burst
    /\ settings.burstModeConfig.postsPerHour # 0
    /\ settings.burstModeConfig.postsPerHour # settings.hourlyLimit
    /\ loc[p].hourlyLimit = settings.burstModeConfig.postsPerHour

\* minutes since midnight of an HH:mm value
MinuteOfDay(hhmm) == (hhmm[1] * 60) + hhmm[2]

\* the time of day t, in minutes, lies in [start, end) taken modulo 24 h
InWindowModulo(start, end, t) ==
  IF start = <<>> \/ end = <<>> THEN FALSE
  ELSE LET s == MinuteOfDay(start)
           e == MinuteOfDay(end)
       IN IF s = e THEN FALSE
          ELSE IF s < e THEN s <= t /\ t < e
          ELSE t >= s \/ t < e

\* burstActive as the claim describes it, at the time of day of the clock
ExpectedBurst ==
  /\ settings.burstModeEnabled
  /\ InWindowModulo(settings.burstModeConfig.startTime, settings.burstModeConfig.endTime,
                    (HourOfDay * 60) + MinuteOfHour)

\* C22: burstActive as postDueWithCaps computes it is true iff burstModeEnabled
\* is set and the time of day lies in [startTime, endTime) taken modulo 24 h; it
\* is false when startTime = endTime or a bound is missing.
C22_BurstWindow ==
  \A p \in Procs : CapComputed(p) => (loc[p].burst <=> ExpectedBurst)

\* the same on a runtime that renders the hour after midnight as 00
C22_BurstWindowH23 ==
  \A p \in Procs : (CapComputed(p) /\ hourCycle = "h23") => (loc[p].burst <=> ExpectedBurst)

\* burst is active in a window that wraps past midnight
C22_WrappingWindow ==
  \E p \in Procs :
    /\ CapComputed(p)
    /\ loc[p].burst
    /\ MinuteOfDay(settings.burstModeConfig.startTime)
         > MinuteOfDay(settings.burstModeConfig.endTime)

\* worker p is executing scheduleRefill
InRefill(p) == pc[p] \in RefillLabels \cup {"refill_count"}

\* C23: a worker executing scheduleRefill holds a 'scheduler' lock document of
\* its own whose expiresAt has not passed, and no two workers execute
\* scheduleRefill at the same time.
C23_RefillUnderLock ==
  /\ \A p \in Procs :
       InRefill(p) =>
         \E i \in LockRecords(SchedulerKey) : locks[i].by = p /\ locks[i].expiresAt > now
  /\ Cardinality({p \in Procs : InRefill(p)}) <= 1

\* two executions of scheduleRefill overlap, one of them that of a tick that
\* holds the live lock
C23_RefillsOverlap ==
  \E p, q \in Procs :
    /\ p # q
    /\ InRefill(p) /\ loc[p].op = "tick" /\ loc[p].lockExp > now
    /\ InRefill(q) /\ loc[q].op = "refill"

\* candidate id at the head of the step that worker p takes in scheduleRefill
Classifying(p, id) ==
  pc[p] = "refill_save" /\ loc[p].list[loc[p].i] = id /\ loc'[p] # loc[p]

\* C24: in a refill, an Instagram candidate below minimumIGLikesToRepost is
\* never changed, never classified and never among those added; a candidate
\* goes from 'queued' to 'scheduled' only in the step of a refill that
\* classified it non-duplicate, and only if it meets the minimum; and the step
\* after a duplicate verdict moves the candidate to 'skipped'.
C24_EngagementGuard ==
  [][/\ \A id \in Ids : BelowMinimum(id) => queue'[id] = queue[id]
     /\ \A p \in Procs :
          /\ pc'[p] \in {"refill_dup", "refill_save"} =>
               ~BelowMinimum(loc'[p].list[loc'[p].i])
          /\ \A k \in DOMAIN loc'[p].promoted : ~BelowMinimum(loc'[p].promoted[k])
          /\ loc'[p].added = Len(loc'[p].promoted)
     /\ \A id \in Ids :
          (queue[id].status = "queued" /\ queue'[id].status = "scheduled") =>
            /\ ~BelowMinimum(id)
            /\ \E p \in Procs : Classifying(p, id) /\ loc[p].dup = "none"
     /\ \A p \in Procs : \A id \in Ids :
          (Classifying(p, id) /\ loc[p].dup # "none") =>
            /\ queue'[id].status = "skipped"
            /\ queue'[id].scheduledAt = queue[id].scheduledAt]_vars

\* a refill has promoted a candidate that came after an Instagram candidate
\* below the minimum, which is as it was
C24_BelowMinimumLeft ==
  \E p \in Procs :
    /\ pc[p] = "refill_return"
    /\ \E a, b \in DOMAIN loc[p].list :
         /\ a < b
         /\ BelowMinimum(loc[p].list[a])
         /\ queue[loc[p].list[a]] = FreshDoc
         /\ loc[p].list[b] \in ElementsOf(loc[p].promoted)

\* a refill has moved a duplicate to 'skipped'
C24_DuplicateSkipped ==
  \E p \in Procs :
    /\ pc[p] \in RefillLabels
    /\ \E id \in ElementsOf(loc[p].list) : queue[id].status = "skipped"

\* the step in which a store operation of worker p's tick raises, or in which
\* its catch block runs
FailureStep(p) ==
  \/ pc[p] \in RaisingLabels /\ pc'[p] = "tick_error"
  \/ pc[p] = "tick_error" /\ pc'[p] # "tick_error"

\* C25: the step in which a store operation of a tick raises and the steps of
\* the catch block change no candidate and no PostedMemo; in the catch block
\* the candidates the tick promoted are 'scheduled' with their scheduledAt and
\* those it posted are 'posted' with their postedAt.
C25_NoRollback ==
  [][\A p \in Procs :
       /\ FailureStep(p) => (queue' = queue /\ memos' = memos)
       /\ pc'[p] = "tick_error" =>
            /\ \A k \in DOMAIN loc'[p].promoted :
                 /\ queue'[loc'[p].promoted[k]].status = "scheduled"
                 /\ queue'[loc'[p].promoted[k]].scheduledAt # NoDate
            /\ \A k \in DOMAIN loc'[p].done :
                 /\ queue'[loc'[p].done[k]].status = "posted"
                 /\ queue'[loc'[p].done[k]].postedAt # NoDate]_vars

\* a store operation raised after the tick had posted a candidate and created
\* its PostedMemo, with another candidate due that it had not reached
C25_FailedAfterCommit ==
  \E p \in Procs :
    /\ pc[p] = "tick_error"
    /\ \E k \in DOMAIN loc[p].done : MemosFor(loc[p].done[k]) # {}
    /\ \E id \in DueIds : \A k \in DOMAIN loc[p].done : loc[p].done[k] # id

\* a store operation raised after the refill of the tick had promoted a candidate
C25_FailedAfterPromotion ==
  \E p \in Procs : pc[p] = "tick_error" /\ loc[p].promoted # <<>>

\* the positions after i of the due list of worker p whose platform is under the cap
OpenAfter(p) ==
  {k \in (loc[p].i + 1)..Len(loc[p].list) :
     loc[p].totals[Catalog[loc[p].list[k]].platform] < loc[p].hourlyLimit}

\* C26: when the claim of a due item returns false, the step changes no
\* candidate, no PostedMemo, no lock document and no running count, and the loop
\* goes on at the next due item whose platform is under the cap, or ends when
\* there is none.
C26_FailedClaimNoop ==
  [][\A p \in Procs :
       (ClaimCall(p) /\ ~tryAcquireLock(PostKey(loc[p].list[loc[p].i]))) =>
         /\ queue' = queue
         /\ memos' = memos
         /\ locks' = locks
         /\ commits' = commits
         /\ IF OpenAfter(p) = {}
            THEN pc'[p] = "idle"
            ELSE /\ pc'[p] = "post_claim"
                 /\ loc'[p].totals = loc[p].totals
                 /\ loc'[p].list = loc[p].list
                 /\ loc'[p].i \in OpenAfter(p)
                 /\ \A k \in OpenAfter(p) : loc'[p].i <= k]_vars

\* a tick has gone past a due item that another worker holds the claim of; the
\* item is still 'scheduled' and its platform is under the cap
C26_PassedHeldClaim ==
  \E p \in Procs :
    /\ loc[p].op = "tick"
    /\ pc[p] \in PostLoop
    /\ \E k \in 1..(loc[p].i - 1) :
         /\ queue[loc[p].list[k]].status = "scheduled"
         /\ loc[p].totals[Catalog[loc[p].list[k]].platform] < loc[p].hourlyLimit
         /\ \E i \in LockRecords(PostKey(loc[p].list[k])) : locks[i].by # p

C27_PostedAfterClaimExpired ==
  /\ queue[1].status = "posted"
  /\ queue[1].postedAt > TickPeriod + ClaimTtl
  /\ memos # <<>> /\ memos[1].src = 2

\* C28: for each platform the number of candidates 'posted' with postedAt in the
\* trailing 60 minutes is at most the effective hourly cap, in every state that
\* ticks and manual post operations reach.
C28_SlidingWindowCap ==
  \A platform \in Platforms :
    CountPostedSince(platform, now - HourSec) <= EffectiveHourlyLimit

\* two Instagram candidates posted at one instant under an hourly cap of one
C28_TwoUnderCapOfOne ==
  /\ settings.hourlyLimit = 1
  /\ CountPostedSince("instagram", now - HourSec) = 2

====
